---- MODULE Spec2Model ----
(***************************************************************************)
(* Offline tour-asset cache of the heritage tour application               *)
(* (src/src/services/tourAssetDownloader.ts) with the collaborators it     *)
(* talks to: the REST client (src/src/services/api.ts), the persistent     *)
(* key-value store (AsyncStorage) and the file system (expo-file-system).  *)
(*                                                                         *)
(* JavaScript values are tagged records: [type |-> "undefined"],           *)
(* [type |-> "string", parts |-> ...] and [type |-> "array", items |-> ...]*)
(* A string is kept as the sequence of its '/'-separated parts, each part  *)
(* a sequence of one-character strings, so that split('/'), lastIndexOf    *)
(* and substring are computed and not assumed.                             *)
(***************************************************************************)
EXTENDS Integers, Sequences, FiniteSets, TLC

VARIABLES
    now,                \* wall clock, in hours since the epoch of the run
    store,              \* AsyncStorage: key -> stored string, or Absent
    dirExists,          \* the cache root directory exists on disk
    subdirs,            \* tour ids t whose directory tour_cache/tour_<t>/ exists
    files,              \* file names present directly in the cache root
    _cacheInitialized,  \* TourAssetDownloader._cacheInitialized
    pc,                 \* position of the downloadTourAssets call in flight
    tourId,             \* its tourId argument
    tourDetails,        \* its tourDetails local (the collector's input)
    urlsToDownload,     \* its urlsToDownload local (the collector's output)
    downloaded,         \* its downloaded counter
    localAssets,        \* its localAssets mapping, a set of <<url, path>> pairs
    progress,           \* the onProgress calls of that batch, in order
    lastDownload,       \* the downloadFile call that completed last
    ret,                \* outcome of the operation that completed last
    batches,            \* number of downloadTourAssets calls so far
    failed,             \* history: URLs of the batch whose download attempt threw
    persistedAt,        \* history: hour at which each tour's entry was written, or -1
    attempts,           \* history: URLs handed to downloadFile by the batch, in order
    server,             \* the tour record GET /tours/<id> answers with, per tour id
    suspended,          \* locals of a second downloadTourAssets call waiting at an await
    ui,                 \* HomeScreen: download modal, cachedTours, navigation
    hist                \* history: what happened to the store during the batch

vars == <<now, store, dirExists, subdirs, files, _cacheInitialized, pc, tourId,
          tourDetails, urlsToDownload, downloaded, localAssets, progress,
          lastDownload, ret, batches, failed, persistedAt, attempts, server,
          suspended, ui, hist>>

----------------------------------------------------------------------------
(* Bounds of the model *)

MaxNow == 25            \* last clock value, in hours
MaxBatches == 2         \* downloadTourAssets calls in one run
MaxObjects == 1         \* objects of a tour record built for the collector
MaxAssets == 1          \* assets per object
MaxTasks == 1           \* tasks per object
MaxMaterials == 2       \* material_urls entries per asset
MaxUrlFields == 4       \* URL-valued fields set in a record built for the collector

----------------------------------------------------------------------------
(* JavaScript values *)

Undefined == [type |-> "undefined"]

Str(parts) == [type |-> "string", parts |-> parts]

EmptyString == Str(<< <<>> >>)

Arr(items) == [type |-> "array", items |-> items]

\* JavaScript truthiness of an optional string or array field
Truthy(v) == v.type = "array" \/ (v.type = "string" /\ v # EmptyString)

Range(s) == {s[i] : i \in 1..Len(s)}

\* faulty variant: the quotient is truncated
Round_Down(n, d) == n \div d

\* Math.round on the non-negative quotient n/d, d > 0
Round(n, d) == (2 * n + d) \div (2 * d)

----------------------------------------------------------------------------
(* Tour records (src/types/api.ts): only the fields the cache reads *)

AssetUrlFields == {"thumbnail_image_url", "model_url", "marker_image_url",
                   "audio_url", "video_url"}

TaskUrlFields == {"thumbnail_url", "detailed_img_url"}

NewAsset(materials) ==
    [thumbnail_image_url |-> Undefined, model_url |-> Undefined,
     material_urls |-> materials, marker_image_url |-> Undefined,
     audio_url |-> Undefined, video_url |-> Undefined]

NewTask == [thumbnail_url |-> Undefined, detailed_img_url |-> Undefined]

NewObject == [thumbnail_url |-> Undefined, assets |-> Undefined, tasks |-> Undefined]

NewTour(id) == [id |-> id, thumbnail_url |-> Undefined, objects |-> Arr(<<>>)]

----------------------------------------------------------------------------
(* collectAllAssetUrls *)

\* if (v) urls.push(v)
PushIfTruthy(urls, v) == IF Truthy(v) THEN Append(urls, v) ELSE urls

\* asset.material_urls.forEach(url => { if (url) urls.push(url) })
RECURSIVE PushMaterials(_, _)
PushMaterials(urls, items) ==
    IF items = <<>> THEN urls
    ELSE PushMaterials(PushIfTruthy(urls, Head(items)), Tail(items))

\* body of object.assets?.forEach
PushAssetUrls(urls, asset) ==
    LET u1 == PushIfTruthy(urls, asset.thumbnail_image_url)
        u2 == PushIfTruthy(u1, asset.model_url)
        u3 == IF Truthy(asset.material_urls)
              THEN PushMaterials(u2, asset.material_urls.items) ELSE u2
        u4 == PushIfTruthy(u3, asset.marker_image_url)
        u5 == PushIfTruthy(u4, asset.audio_url)
    IN  PushIfTruthy(u5, asset.video_url)

\* faulty variant: the detail image of a task is forgotten
PushTaskUrls_NoDetail(urls, task) == PushIfTruthy(urls, task.thumbnail_url)

\* body of object.tasks?.forEach
PushTaskUrls(urls, task) ==
    PushIfTruthy(PushIfTruthy(urls, task.thumbnail_url), task.detailed_img_url)

RECURSIVE PushAllAssets(_, _)
PushAllAssets(urls, items) ==
    IF items = <<>> THEN urls
    ELSE PushAllAssets(PushAssetUrls(urls, Head(items)), Tail(items))

RECURSIVE PushAllTasks(_, _)
PushAllTasks(urls, items) ==
    IF items = <<>> THEN urls
    ELSE PushAllTasks(PushTaskUrls(urls, Head(items)), Tail(items))

\* body of tourDetails.objects.forEach; ?. skips an absent list
PushObjectUrls(urls, object) ==
    LET u1 == PushIfTruthy(urls, object.thumbnail_url)
        u2 == IF object.assets.type = "array"
              THEN PushAllAssets(u1, object.assets.items) ELSE u1
    IN  IF object.tasks.type = "array"
        THEN PushAllTasks(u2, object.tasks.items) ELSE u2

RECURSIVE PushAllObjects(_, _)
PushAllObjects(urls, items) ==
    IF items = <<>> THEN urls
    ELSE PushAllObjects(PushObjectUrls(urls, Head(items)), Tail(items))

\* Array.from(new Set(urls)): a Set keeps the first occurrence, in insertion order
RECURSIVE SetInsertAll(_, _)
SetInsertAll(kept, urls) ==
    IF urls = <<>> THEN kept
    ELSE SetInsertAll(IF Head(urls) \in Range(kept) THEN kept
                      ELSE Append(kept, Head(urls)), Tail(urls))

\* faulty variant: the pushed list is returned as it is
RemoveDuplicates_KeepAll(urls) == urls

RemoveDuplicates(urls) == SetInsertAll(<<>>, urls)

collectAllAssetUrls(td) ==
    RemoveDuplicates(
        PushAllObjects(PushIfTruthy(<<>>, td.thumbnail_url), td.objects.items))

----------------------------------------------------------------------------
(* Sample data *)

\* remote URLs: U1 and U2 end in the same segment "m.g", U3 has no extension
U1 == Str(<< <<"a">>, <<"m", ".", "g">> >>)
U2 == Str(<< <<"b">>, <<"m", ".", "g">> >>)
U3 == Str(<< <<"a">>, <<"v">> >>)

Urls == {U1, U2, U3}

\* values a URL-valued field of a built record takes besides undefined
FieldValues == {U1, U3, EmptyString}

TourIds == {7, 8}

\* the record the server returns for each tour: tour 7 names U1 on two entities
\* and yields two URLs, tour 8 has an object and a task but no URL at all
ServerTours ==
    [t \in TourIds |->
       IF t = 7
       THEN [id |-> 7, thumbnail_url |-> U1,
             objects |-> Arr(<<
               [thumbnail_url |-> U1,
                assets |-> Arr(<< NewAsset(Arr(<<U2>>)) >>),
                tasks |-> Undefined] >>)]
       ELSE [id |-> t, thumbnail_url |-> Undefined,
             objects |-> Arr(<< [NewObject EXCEPT !.tasks = Arr(<<NewTask>>)] >>)]]

----------------------------------------------------------------------------
(* The idle state of the cache manager right after construction *)

Null == [type |-> "null"]

CacheKey(t) == <<"cached_tour_", t>>

AuthKeys == {<<"access_token">>, <<"refresh_token">>, <<"user">>}

Keys == {CacheKey(t) : t \in TourIds} \cup AuthKeys

NoCall == [op |-> "none"]

\* the locals of a downloadTourAssets call that has not been made
IdleCall ==
    [pc |-> "idle", tourId |-> 0, tourDetails |-> Undefined, urlsToDownload |-> <<>>,
     downloaded |-> 0, localAssets |-> << >>, progress |-> <<>>, failed |-> {},
     attempts |-> <<>>, lastDownload |-> NoCall, ret |-> NoCall]

\* HomeScreen as mounted: no modal, cachedTours empty, the home route shown;
\* awaiting is the number of the batch startTour waits for, 0 when it waits for
\* none, cancelled records that cancel was pressed during that batch
HomeUi ==
    [modalVisible |-> FALSE, modalTour |-> 0, cachedTours |-> {}, route |-> <<"Home">>,
     alert |-> FALSE, awaiting |-> 0, cancelled |-> FALSE]

\* overwrote: the store write of the batch replaced an entry of the same tour;
\* clearedInFlight: clearTourCache completed for the tour of the batch while the
\* batch was in flight
NoHistory == [overwrote |-> FALSE, clearedInFlight |-> FALSE]

Init ==
    /\ now = 0
    /\ store = [k \in Keys |-> IF k \in AuthKeys THEN Str(<< <<"s">> >>) ELSE Null]
    /\ dirExists \in BOOLEAN     \* a fresh install, or a directory left by an earlier run
    /\ subdirs = {}
    /\ files = {}
    /\ _cacheInitialized = FALSE
    /\ pc = "idle"
    /\ tourId = 0
    /\ tourDetails = Undefined
    /\ urlsToDownload = <<>>
    /\ downloaded = 0
    /\ localAssets = << >>
    /\ progress = <<>>
    /\ lastDownload = NoCall
    /\ ret = NoCall
    /\ batches = 0
    /\ failed = {}
    /\ persistedAt = [t \in TourIds |-> -1]
    /\ attempts = <<>>
    /\ server = ServerTours
    /\ suspended = IdleCall
    /\ ui = HomeUi
    /\ hist = NoHistory

----------------------------------------------------------------------------
(* Collector specification: a tour record is built field by field, then     *)
(* collectAllAssetUrls is applied to it.                                    *)

cacheVars == <<now, store, dirExists, subdirs, files, _cacheInitialized, tourId,
               downloaded, localAssets, progress, lastDownload, ret, batches,
               failed, persistedAt, attempts, server,
                   suspended, ui, hist>>

RECURSIVE SumSeq(_)
SumSeq(s) == IF s = <<>> THEN 0 ELSE Head(s) + SumSeq(Tail(s))

IsSet(v) == IF v = Undefined THEN 0 ELSE 1

ItemsOf(arr) == IF arr.type = "array" THEN arr.items ELSE <<>>

\* number of URL-valued fields and material entries of td that are not undefined
NumUrlFields(td) ==
    IsSet(td.thumbnail_url)
    + SumSeq([o \in 1..Len(td.objects.items) |->
        LET ob == td.objects.items[o] IN
          IsSet(ob.thumbnail_url)
          + SumSeq([a \in 1..Len(ItemsOf(ob.assets)) |->
              LET as == ob.assets.items[a] IN
                Cardinality({f \in AssetUrlFields : as[f] # Undefined})
                + Len(ItemsOf(as.material_urls))])
          + SumSeq([k \in 1..Len(ItemsOf(ob.tasks)) |->
              Cardinality({f \in TaskUrlFields : ob.tasks.items[k][f] # Undefined})])])

InitCollect ==
    /\ now = 0
    /\ store = [k \in Keys |-> IF k \in AuthKeys THEN Str(<< <<"s">> >>) ELSE Null]
    /\ dirExists = FALSE
    /\ subdirs = {}
    /\ files = {}
    /\ _cacheInitialized = FALSE
    /\ pc = "build"
    /\ tourId = 0
    /\ tourDetails = NewTour(7)
    /\ urlsToDownload = <<>>
    /\ downloaded = 0
    /\ localAssets = << >>
    /\ progress = <<>>
    /\ lastDownload = NoCall
    /\ ret = NoCall
    /\ batches = 0
    /\ failed = {}
    /\ persistedAt = [t \in TourIds |-> -1]
    /\ attempts = <<>>
    /\ server = ServerTours
    /\ suspended = IdleCall
    /\ ui = HomeUi
    /\ hist = NoHistory

Building == pc = "build"

CanSetField == Building /\ NumUrlFields(tourDetails) < MaxUrlFields

Objs == tourDetails.objects.items

BuildTo(td) == /\ tourDetails' = td
               /\ UNCHANGED <<pc, urlsToDownload>>
               /\ UNCHANGED cacheVars

AddObject ==
    /\ Building /\ Len(Objs) < MaxObjects
    /\ BuildTo([tourDetails EXCEPT !.objects.items = Append(@, NewObject)])

SetTourThumbnail ==
    /\ CanSetField /\ tourDetails.thumbnail_url = Undefined
    /\ \E v \in FieldValues : BuildTo([tourDetails EXCEPT !.thumbnail_url = v])

SetObjectThumbnail ==
    /\ CanSetField
    /\ \E o \in 1..Len(Objs), v \in FieldValues :
         /\ Objs[o].thumbnail_url = Undefined
         /\ BuildTo([tourDetails EXCEPT !.objects.items[o].thumbnail_url = v])

SetAssetsList ==
    /\ Building
    /\ \E o \in 1..Len(Objs) :
         /\ Objs[o].assets = Undefined
         /\ BuildTo([tourDetails EXCEPT !.objects.items[o].assets = Arr(<<>>)])

SetTasksList ==
    /\ Building
    /\ \E o \in 1..Len(Objs) :
         /\ Objs[o].tasks = Undefined
         /\ BuildTo([tourDetails EXCEPT !.objects.items[o].tasks = Arr(<<>>)])

AddAsset ==
    /\ Building
    /\ \E o \in 1..Len(Objs), m \in {Undefined, Arr(<<>>)} :
         /\ Objs[o].assets.type = "array"
         /\ Len(Objs[o].assets.items) < MaxAssets
         /\ BuildTo([tourDetails EXCEPT
                       !.objects.items[o].assets.items = Append(@, NewAsset(m))])

AddTask ==
    /\ Building
    /\ \E o \in 1..Len(Objs) :
         /\ Objs[o].tasks.type = "array"
         /\ Len(Objs[o].tasks.items) < MaxTasks
         /\ BuildTo([tourDetails EXCEPT
                       !.objects.items[o].tasks.items = Append(@, NewTask)])

SetAssetField ==
    /\ CanSetField
    /\ \E o \in 1..Len(Objs) :
         \E a \in 1..Len(ItemsOf(Objs[o].assets)), f \in AssetUrlFields, v \in FieldValues :
           /\ Objs[o].assets.items[a][f] = Undefined
           /\ BuildTo([tourDetails EXCEPT !.objects.items[o].assets.items[a][f] = v])

AddMaterial ==
    /\ CanSetField
    /\ \E o \in 1..Len(Objs) :
         \E a \in 1..Len(ItemsOf(Objs[o].assets)), v \in FieldValues :
           /\ Objs[o].assets.items[a].material_urls.type = "array"
           /\ Len(Objs[o].assets.items[a].material_urls.items) < MaxMaterials
           /\ BuildTo([tourDetails EXCEPT
                !.objects.items[o].assets.items[a].material_urls.items = Append(@, v)])

SetTaskField ==
    /\ CanSetField
    /\ \E o \in 1..Len(Objs) :
         \E k \in 1..Len(ItemsOf(Objs[o].tasks)), f \in TaskUrlFields, v \in FieldValues :
           /\ Objs[o].tasks.items[k][f] = Undefined
           /\ BuildTo([tourDetails EXCEPT !.objects.items[o].tasks.items[k][f] = v])

\* const urlsToDownload = this.collectAllAssetUrls(tourDetails)
Collect ==
    /\ Building
    /\ urlsToDownload' = collectAllAssetUrls(tourDetails)
    /\ pc' = "collected"
    /\ UNCHANGED tourDetails
    /\ UNCHANGED cacheVars

NextCollect ==
    \/ AddObject \/ SetTourThumbnail \/ SetObjectThumbnail \/ SetAssetsList
    \/ SetTasksList \/ AddAsset \/ AddTask \/ SetAssetField \/ AddMaterial
    \/ SetTaskField \/ Collect

SpecCollect == InitCollect /\ [][NextCollect]_vars

\* the URL values present in the URL-valued fields of td
PresentUrls(td) ==
    LET objects == Range(td.objects.items)
        assets == UNION {Range(ItemsOf(ob.assets)) : ob \in objects}
        tasks == UNION {Range(ItemsOf(ob.tasks)) : ob \in objects}
        values == {td.thumbnail_url}
                  \cup {ob.thumbnail_url : ob \in objects}
                  \cup {as[f] : as \in assets, f \in AssetUrlFields}
                  \cup UNION {Range(ItemsOf(as.material_urls)) : as \in assets}
                  \cup {tk[f] : tk \in tasks, f \in TaskUrlFields}
    IN  {v \in values : v # Undefined /\ v # EmptyString}

NoDuplicates(s) == \A i, j \in 1..Len(s) : s[i] = s[j] => i = j

\* C9: the list returned by collectAllAssetUrls never holds the same URL twice
C9_NoDuplicateUrls ==
    pc = "collected" => NoDuplicates(urlsToDownload)

\* a record with the same URL on the tour, an object, an asset and a task was collected
C9_Witness ==
    /\ pc = "collected"
    /\ tourDetails.thumbnail_url = U1
    /\ \E o \in 1..Len(Objs) :
         /\ Objs[o].thumbnail_url = U1
         /\ \E a \in 1..Len(ItemsOf(Objs[o].assets)) : Objs[o].assets.items[a].model_url = U1
         /\ \E k \in 1..Len(ItemsOf(Objs[o].tasks)) : Objs[o].tasks.items[k].thumbnail_url = U1
    /\ urlsToDownload = <<U1>>

\* C10: the collected URLs are exactly the URL values present in the record
C10_ExactlyPresentUrls ==
    pc = "collected" => Range(urlsToDownload) = PresentUrls(tourDetails)

\* a record with an absent assets list, an absent and an empty-string field and
\* two distinct URLs was collected
C10_Witness ==
    /\ pc = "collected"
    /\ Len(Objs) = 1
    /\ Objs[1].assets = Undefined
    /\ Objs[1].tasks.type = "array" /\ Len(Objs[1].tasks.items) = 1
    /\ Objs[1].tasks.items[1].thumbnail_url = Undefined
    /\ Objs[1].tasks.items[1].detailed_img_url = U3
    /\ Objs[1].thumbnail_url = EmptyString
    /\ tourDetails.thumbnail_url = U1
    /\ urlsToDownload = <<U1, U3>>

----------------------------------------------------------------------------
(* Clock, dates and JSON *)

CACHE_EXPIRY_HOURS == 24

MS_PER_HOUR == 60 * 60 * 1000

MS_PER_DAY == 24 * MS_PER_HOUR

\* the clock values the model observes: the start of the run, then the hours
\* around the expiry of an entry written at the start
Instants == {h \in 0..MaxNow : h = 0 \/ h >= CACHE_EXPIRY_HOURS - 1}

\* Date.now() and new Date().getTime(), in milliseconds
DateNow == now * MS_PER_HOUR

\* faulty variant: the time of day is dropped
toISOString_DateOnly(ms) == [type |-> "string", day |-> ms \div MS_PER_DAY, time |-> 0]

\* Date.prototype.toISOString: calendar day and time of day, to the millisecond
toISOString(ms) == [type |-> "string", day |-> ms \div MS_PER_DAY, time |-> ms % MS_PER_DAY]

\* new Date(isoString).getTime()
DateParse(iso) == iso.day * MS_PER_DAY + iso.time

\* faulty variant: the mapping is serialised as an empty object
JSONstringify_NoEntries(cachedData) ==
    [type |-> "json",
     tourDetails |-> cachedData.tourDetails,
     downloadedAt |-> cachedData.downloadedAt,
     localAssets |-> {}]

\* JSON.stringify(cachedData): the mapping object becomes its list of entries
JSONstringify(cachedData) ==
    [type |-> "json",
     tourDetails |-> cachedData.tourDetails,
     downloadedAt |-> cachedData.downloadedAt,
     localAssets |-> {<<u, cachedData.localAssets[u]>> : u \in DOMAIN cachedData.localAssets}]

\* JSON.parse(text): throws on text that is not JSON
JSONparse(text) ==
    IF text.type = "json"
    THEN [threw |-> FALSE,
          value |-> [tourDetails |-> text.tourDetails,
                     downloadedAt |-> text.downloadedAt,
                     localAssets |-> [u \in {e[1] : e \in text.localAssets} |->
                                        (CHOOSE e \in text.localAssets : e[1] = u)[2]]]]
    ELSE [threw |-> TRUE]

----------------------------------------------------------------------------
(* File names and the file system *)

RandomIds == {"r1", "r2"}

\* fileName.lastIndexOf('.'), 0-based, -1 when there is no dot
lastIndexOfDot(chars) ==
    LET dots == {i \in 1..Len(chars) : chars[i] = "."}
    IN  IF dots = {} THEN -1 ELSE (CHOOSE i \in dots : \A j \in dots : j <= i) - 1

\* getFileNameFromUrl, with the values Date.now() and Math.random() gave it:
\* the record stands for `${name}_${timestamp}_${randomId}${ext}`
getFileNameFromUrl(url, timestamp, randomId) ==
    LET fileName == url.parts[Len(url.parts)]
        dotIndex == lastIndexOfDot(fileName)
    IN  IF dotIndex > 0
        THEN [name |-> SubSeq(fileName, 1, dotIndex), timestamp |-> timestamp,
              randomId |-> randomId, ext |-> SubSeq(fileName, dotIndex + 1, Len(fileName))]
        ELSE [name |-> fileName, timestamp |-> timestamp,
              randomId |-> randomId, ext |-> <<>>]

\* `${this.cacheDir}${fileName}`
LocalPath(fileName) == [dir |-> "tour_cache/", file |-> fileName]

\* ensureCacheDirectoryExists from flag value init and directory state dir;
\* fsFails: the file-system call it makes throws
ensureCacheDirectoryExists(init, dir, fsFails) ==
    IF init THEN [threw |-> FALSE, initialized |-> TRUE, dirExists |-> dir]
    ELSE IF fsFails THEN [threw |-> TRUE, initialized |-> FALSE, dirExists |-> dir]
    ELSE [threw |-> FALSE, initialized |-> TRUE, dirExists |-> TRUE]

HttpStatuses == {200, 404}

\* downloadFile(url); FileSystem.downloadAsync rejects when the target directory
\* is missing and otherwise saves the response body and resolves with the status
downloadFile(url, randomId, status, fsFails) ==
    LET e == ensureCacheDirectoryExists(_cacheInitialized, dirExists, fsFails)
        fileName == getFileNameFromUrl(url, DateNow, randomId)
        localPath == LocalPath(fileName)
        unchanged == [initialized |-> e.initialized, dirExists |-> e.dirExists,
                      files |-> files]
    IN  IF e.threw
        THEN unchanged @@ [threw |-> TRUE, fetched |-> FALSE]
        ELSE IF e.dirExists /\ fileName \in files
        THEN unchanged @@ [threw |-> FALSE, fetched |-> FALSE, path |-> localPath]
        ELSE IF ~e.dirExists
        THEN unchanged @@ [threw |-> TRUE, fetched |-> TRUE]
        ELSE [initialized |-> e.initialized, dirExists |-> e.dirExists,
              files |-> files \cup {fileName}, fetched |-> TRUE]
             @@ (IF status = 200 THEN [threw |-> FALSE, path |-> localPath]
                 ELSE [threw |-> TRUE])

----------------------------------------------------------------------------
(* downloadTourAssets, one step per await of the batch *)

\* ret while the call invoked last has not completed
Pending(op, id) == [op |-> op, id |-> id, kind |-> "pending"]

Returned(op, id, value) == [op |-> op, id |-> id, kind |-> "return", value |-> value]

\* the catch at the end of downloadTourAssets logs and rethrows
Raised(op, id, error) == [op |-> op, id |-> id, kind |-> "raise", error |-> error]

Marker(text) == [marker |-> text]

\* currentFile of the callback before a download: getFileNameFromUrl(url) called
\* once more, so with a time stamp and random token of its own; the log keeps the
\* name and extension and leaves that time stamp and token out
DisplayName(url) ==
    LET shown == getFileNameFromUrl(url, 0, "") IN [name |-> shown.name, ext |-> shown.ext]

Progress(total, n, currentFile, percentage) ==
    [total |-> total, downloaded |-> n, currentFile |-> currentFile,
     percentage |-> percentage]

\* faulty variant: the write lands only on a key that has a value
setItem_IfPresent(st, key, value) == IF st[key] = Null THEN st ELSE [st EXCEPT ![key] = value]

\* AsyncStorage.setItem
setItem(st, key, value) == [st EXCEPT ![key] = value]

\* faulty variant: an entry without tour record and mapping is written after
\* every attempt
StoreAfterAttempt_Flush(st, key) ==
    [st EXCEPT ![key] = JSONstringify([tourDetails |-> Undefined,
                                        downloadedAt |-> toISOString(DateNow),
                                        localAssets |-> << >>])]

\* what an iteration of the loop does to the store: nothing, the mapping lives
\* in the local object until line 102
StoreAfterAttempt(st, key) == st

\* faulty variant: the first callback already reports completion
StartProgress_Complete(total) == Progress(total, total, Marker("Complete!"), 100)

\* the onProgress call before the loop
StartProgress(total) == Progress(total, 0, Marker("Starting download..."), 0)

\* faulty variant: the last file is announced like any other
AfterMarker_AlwaysNext(done, total) == Marker("Next file...")

\* currentFile of the callback after an attempt:
\* downloaded < total ? 'Next file...' : 'Complete!'
AfterMarker(done, total) ==
    IF done < total THEN Marker("Next file...") ELSE Marker("Complete!")

\* faulty variant: a failed request drops the session token
StoreAfterFailedRequest_DropToken(st) == [st EXCEPT ![<<"access_token">>] = Null]

\* what a failed request does to the store: makeRequest only rethrows
StoreAfterFailedRequest(st) == st

\* faulty variant: no inner try/catch, the error reaches the outer catch
DownloadErrorEscapes_NoCatch(threw) == threw

\* whether an error thrown by downloadFile leaves the loop: the inner catch logs it
DownloadErrorEscapes(threw) == FALSE

\* faulty variant: every iteration takes the first URL again
NextUrl_First(urls, done) == urls[1]

\* for (const url of urlsToDownload): the URL of the iteration after `done`
\* completed ones
NextUrl(urls, done) == urls[done + 1]

\* faulty variant: the mapping keeps only the entry written last
Assign_OnlyLast(mapping, url, localPath) == (url :> localPath)

\* faulty variant: the entry is filed under the empty string
Assign_NoKey(mapping, url, localPath) == (EmptyString :> localPath) @@ mapping

\* localAssets[url] = localPath
Assign(mapping, url, localPath) == (url :> localPath) @@ mapping

batchVars == <<tourId, tourDetails, urlsToDownload, downloaded, localAssets, progress,
               failed, attempts>>

fsVars == <<dirExists, subdirs, files>>

\* lines 41-47: the call starts and awaits ensureCacheDirectoryExists
StartDownload(t) ==
    /\ pc = "idle"
    /\ batches < MaxBatches
    /\ batches' = batches + 1
    /\ \E fsFails \in BOOLEAN :
         LET e == ensureCacheDirectoryExists(_cacheInitialized, dirExists, fsFails) IN
           /\ _cacheInitialized' = e.initialized
           /\ dirExists' = e.dirExists
           /\ IF e.threw
              THEN /\ pc' = "idle"
                   /\ ret' = Raised("downloadTourAssets", t, "ensureCacheDirectoryExists")
              ELSE /\ pc' = "fetch"
                   /\ ret' = Pending("downloadTourAssets", t)
    /\ tourId' = t
    /\ tourDetails' = Undefined
    /\ urlsToDownload' = <<>>
    /\ downloaded' = 0
    /\ localAssets' = << >>
    /\ progress' = <<>>
    /\ failed' = {}
    /\ lastDownload' = NoCall
    /\ attempts' = <<>>
    /\ hist' = NoHistory
    /\ UNCHANGED <<now, store, subdirs, files, persistedAt, server,
                   suspended, ui>>

\* lines 50-65: the tour record is fetched, its URLs collected, progress 0 reported
FetchTour ==
    /\ pc = "fetch"
    /\ \E ok \in BOOLEAN :
         IF ok
         THEN /\ tourDetails' = server[tourId]
              /\ urlsToDownload' = collectAllAssetUrls(server[tourId])
              /\ progress' = Append(progress,
                    StartProgress(Len(collectAllAssetUrls(server[tourId]))))
              /\ pc' = "loop"
              /\ UNCHANGED <<store, ret>>
         ELSE /\ store' = StoreAfterFailedRequest(store)
              /\ ret' = Raised("downloadTourAssets", tourId, "getTourDetails")
              /\ pc' = "idle"
              /\ UNCHANGED <<tourDetails, urlsToDownload, progress>>
    /\ UNCHANGED <<now, _cacheInitialized, tourId, downloaded, localAssets, failed,
                   lastDownload, batches, persistedAt, attempts, server,
                   suspended, ui, hist>>
    /\ UNCHANGED fsVars

\* lines 68-93: one iteration of the loop
DownloadNext ==
    /\ pc = "loop"
    /\ downloaded < Len(urlsToDownload)
    /\ \E randomId \in RandomIds, status \in HttpStatuses, fsFails \in BOOLEAN :
         LET url == NextUrl(urlsToDownload, downloaded)
             total == Len(urlsToDownload)
             before == Progress(total, downloaded, DisplayName(url),
                                Round(downloaded * 100, total))
             dl == downloadFile(url, randomId, status, fsFails)
             after == Progress(total, downloaded + 1, AfterMarker(downloaded + 1, total),
                               Round((downloaded + 1) * 100, total))
         IN  /\ _cacheInitialized' = dl.initialized
             /\ dirExists' = dl.dirExists
             /\ files' = dl.files
             /\ lastDownload' = [op |-> "downloadFile", url |-> url, threw |-> dl.threw,
                                 fetched |-> dl.fetched,
                                 path |-> IF dl.threw THEN Null ELSE dl.path]
             /\ IF DownloadErrorEscapes(dl.threw)
                THEN /\ pc' = "idle"
                     /\ ret' = Raised("downloadTourAssets", tourId, "downloadFile")
                     /\ progress' = Append(progress, before)
                     /\ UNCHANGED <<downloaded, localAssets>>
                     /\ failed' = failed \cup {url}
                     /\ attempts' = Append(attempts, url)
                ELSE /\ pc' = "loop"
                     /\ ret' = ret
                     /\ progress' = progress \o <<before, after>>
                     /\ downloaded' = downloaded + 1
                     /\ localAssets' = IF dl.threw THEN localAssets
                                       ELSE Assign(localAssets, url, dl.path)
                     /\ failed' = IF dl.threw THEN failed \cup {url} ELSE failed
                     /\ attempts' = Append(attempts, url)
    /\ store' = StoreAfterAttempt(store, CacheKey(tourId))
    /\ UNCHANGED <<now, subdirs, tourId, tourDetails, urlsToDownload, batches,
                   persistedAt, server,
                   suspended, ui, hist>>

\* lines 95-107: the entry is assembled, written to the store and returned
Persist ==
    /\ pc = "loop"
    /\ downloaded = Len(urlsToDownload)
    /\ pc' = "idle"
    /\ \E storeFails \in BOOLEAN :
         LET cachedData == [tourDetails |-> tourDetails,
                            downloadedAt |-> toISOString(DateNow),
                            localAssets |-> localAssets]
         IN  IF storeFails
             THEN /\ ret' = Raised("downloadTourAssets", tourId, "setItem")
                  /\ UNCHANGED <<store, persistedAt, hist>>
             ELSE /\ store' = setItem(store, CacheKey(tourId), JSONstringify(cachedData))
                  /\ persistedAt' = [persistedAt EXCEPT ![tourId] = now]
                  /\ hist' = [hist EXCEPT !.overwrote = store[CacheKey(tourId)] # Null]
                  /\ ret' = Returned("downloadTourAssets", tourId, cachedData)
    /\ UNCHANGED <<now, _cacheInitialized, lastDownload, batches, server,
                   suspended, ui>>
    /\ UNCHANGED batchVars
    /\ UNCHANGED fsVars

----------------------------------------------------------------------------
(* Reads *)

\* AsyncStorage.getItem
getItem(key) == store[key]

\* faulty variant: an entry is still fresh at the very instant it expires
isTourCached_Inclusive(t) ==
    LET cachedDataString == getItem(CacheKey(t)) IN
      IF cachedDataString = Null THEN FALSE
      ELSE LET parsed == JSONparse(cachedDataString) IN
        IF parsed.threw THEN FALSE
        ELSE LET downloadedAt == DateParse(parsed.value.downloadedAt)
                 expiryTime == downloadedAt + CACHE_EXPIRY_HOURS * 60 * 60 * 1000
             IN  DateNow <= expiryTime

\* isTourCached(tourId): the value it resolves with in the current state
isTourCached(t) ==
    LET cachedDataString == getItem(CacheKey(t)) IN
      IF cachedDataString = Null THEN FALSE
      ELSE LET parsed == JSONparse(cachedDataString) IN
        IF parsed.threw THEN FALSE
        ELSE LET downloadedAt == DateParse(parsed.value.downloadedAt)
                 expiryTime == downloadedAt + CACHE_EXPIRY_HOURS * 60 * 60 * 1000
             IN  DateNow < expiryTime

\* getCachedTourData(tourId): the value it resolves with in the current state
getCachedTourData(t) ==
    LET cachedDataString == getItem(CacheKey(t)) IN
      IF cachedDataString = Null THEN Null
      ELSE LET parsed == JSONparse(cachedDataString) IN
        IF parsed.threw THEN Null ELSE parsed.value

----------------------------------------------------------------------------
(* Eviction *)

\* faulty variant: the entry is left in the store
removeItem_Skipped(st, key) == st

\* AsyncStorage.removeItem
removeItem(st, key) == [st EXCEPT ![key] = Null]

\* faulty variant: every key counts as a tour entry
IsTourCacheKey_Any(key) == TRUE

\* key.startsWith('cached_tour_')
IsTourCacheKey(key) == key[1] = "cached_tour_"

\* faulty variant: the catch rethrows
Logged_Rethrown(op, id) == Raised(op, id, "rethrown")

\* catch (error) { console.error(...) } of clearTourCache and clearAllCache: the
\* call resolves
Logged(op, id) == Returned(op, id, "error logged")

\* clearTourCache(tourId); an error thrown inside is logged and the call returns.
\* fsFails: the file-system call of line 160 throws; storeFails: removeItem
\* rejects; deleteFails: a file-system call of lines 165-167 throws
clearTourCache(t) ==
    /\ \E fsFails \in BOOLEAN, storeFails \in BOOLEAN, deleteFails \in BOOLEAN :
         LET e == ensureCacheDirectoryExists(_cacheInitialized, dirExists, fsFails)
             tourCacheDirExists == e.dirExists /\ t \in subdirs
         IN  /\ _cacheInitialized' = e.initialized
             /\ dirExists' = e.dirExists
             /\ IF e.threw \/ storeFails
                THEN /\ UNCHANGED <<store, persistedAt, subdirs, hist>>
                     /\ ret' = Logged("clearTourCache", t)
                ELSE /\ store' = removeItem(store, CacheKey(t))
                     /\ persistedAt' = [persistedAt EXCEPT ![t] = -1]
                     /\ IF deleteFails
                        THEN /\ UNCHANGED <<subdirs, hist>>
                             /\ ret' = Logged("clearTourCache", t)
                        ELSE /\ subdirs' = IF tourCacheDirExists THEN subdirs \ {t}
                                           ELSE subdirs
                             /\ ret' = Returned("clearTourCache", t, "done")
                             /\ hist' = IF pc # "idle" /\ tourId = t
                                        THEN [hist EXCEPT !.clearedInFlight = TRUE]
                                        ELSE hist
    /\ UNCHANGED <<now, files, pc, lastDownload, batches, server,
                   suspended, ui>>
    /\ UNCHANGED batchVars

\* clearAllCache(); an error thrown inside is logged and the call returns.
\* fsFails: the file-system call of line 179 throws; storeFails: getAllKeys or
\* multiRemove rejects; deleteFails: a file-system call of lines 186-188 throws
clearAllCache ==
    /\ \E fsFails \in BOOLEAN, storeFails \in BOOLEAN, deleteFails \in BOOLEAN :
         LET e == ensureCacheDirectoryExists(_cacheInitialized, dirExists, fsFails)
             tourCacheKeys == {k \in DOMAIN store : store[k] # Null /\ IsTourCacheKey(k)}
             \* the directory is deleted when it exists, then line 191 runs with the
             \* flag the first call set
             last == ensureCacheDirectoryExists(e.initialized, FALSE, FALSE)
         IN  /\ _cacheInitialized' = e.initialized
             /\ IF e.threw \/ storeFails
                THEN /\ dirExists' = e.dirExists
                     /\ UNCHANGED <<store, persistedAt, subdirs, files>>
                     /\ ret' = Logged("clearAllCache", 0)
                ELSE /\ store' = [k \in DOMAIN store |->
                                    IF k \in tourCacheKeys THEN Null ELSE store[k]]
                     /\ persistedAt' = [t \in TourIds |-> -1]
                     /\ IF deleteFails
                        THEN /\ UNCHANGED <<files, subdirs>>
                             /\ dirExists' = e.dirExists
                             /\ ret' = Logged("clearAllCache", 0)
                        ELSE /\ IF e.dirExists
                                THEN /\ files' = {}
                                     /\ subdirs' = {}
                                     /\ dirExists' = last.dirExists
                                ELSE /\ UNCHANGED <<files, subdirs>>
                                     /\ dirExists' = e.dirExists
                             /\ ret' = Returned("clearAllCache", 0, "done")
    /\ UNCHANGED <<now, pc, lastDownload, batches, server,
                   suspended, ui, hist>>
    /\ UNCHANGED batchVars

----------------------------------------------------------------------------
(* The clock advances to a later observed instant *)

Tick ==
    /\ \E h \in Instants : h > now /\ now' = h
    /\ UNCHANGED <<store, _cacheInitialized, pc, lastDownload, ret, batches, persistedAt,
                   server,
                   suspended, ui, hist>>
    /\ UNCHANGED batchVars
    /\ UNCHANGED fsVars

Next ==
    \/ \E t \in TourIds : StartDownload(t)
    \/ FetchTour
    \/ DownloadNext
    \/ Persist
    \/ \E t \in TourIds : clearTourCache(t)
    \/ clearAllCache
    \/ Tick

Spec == Init /\ [][Next]_vars

----------------------------------------------------------------------------
(* Batch specification: the server holds a tour with three distinct URLs,   *)
(* and downloadTourAssets is run on it at one instant.                      *)

\* tour 7 names U1, U2 and U3 once each, tour 8 has no URL
ScenarioTours ==
    [t \in TourIds |->
       IF t = 7
       THEN [id |-> 7, thumbnail_url |-> U1,
             objects |-> Arr(<<
               [thumbnail_url |-> U2,
                assets |-> Undefined,
                tasks |-> Arr(<< [NewTask EXCEPT !.detailed_img_url = U3] >>)] >>)]
       ELSE ServerTours[t]]

InitBatch ==
    /\ now = 0
    /\ store = [k \in Keys |-> IF k \in AuthKeys THEN Str(<< <<"s">> >>) ELSE Null]
    /\ dirExists \in BOOLEAN
    /\ subdirs = {}
    /\ files = {}
    /\ _cacheInitialized = FALSE
    /\ pc = "idle"
    /\ tourId = 0
    /\ tourDetails = Undefined
    /\ urlsToDownload = <<>>
    /\ downloaded = 0
    /\ localAssets = << >>
    /\ progress = <<>>
    /\ lastDownload = NoCall
    /\ ret = NoCall
    /\ batches = 0
    /\ failed = {}
    /\ persistedAt = [t \in TourIds |-> -1]
    /\ attempts = <<>>
    /\ server = ScenarioTours
    /\ suspended = IdleCall
    /\ ui = HomeUi
    /\ hist = NoHistory

NextBatch ==
    \/ \E t \in TourIds : StartDownload(t)
    \/ FetchTour
    \/ DownloadNext
    \/ Persist

SpecBatch == InitBatch /\ [][NextBatch]_vars

----------------------------------------------------------------------------
(* Properties of the batch download *)

DownloadEnded == pc = "idle" /\ ret.op = "downloadTourAssets" /\ ret.kind # "pending"

\* C1: a batch of N URLs of which M download attempts fail does not raise because
\* of them; it returns an entry whose mapping has exactly the N-M succeeded URLs
\* as keys, and that entry is what the store holds under cached_tour_<id>
C1_FailedDownloadsOmitted ==
    DownloadEnded =>
      /\ ret.kind = "raise" => ret.error # "downloadFile"
      /\ ret.kind = "return" =>
           /\ DOMAIN ret.value.localAssets = Range(urlsToDownload) \ failed
           /\ Cardinality(DOMAIN ret.value.localAssets)
                = Len(urlsToDownload) - Cardinality(failed)
           /\ store[CacheKey(ret.id)] = JSONstringify(ret.value)

\* a batch of two URLs, one of which failed, returned and was persisted
C1_Witness ==
    /\ DownloadEnded /\ ret.kind = "return" /\ ret.id = 7
    /\ Len(urlsToDownload) = 2
    /\ Cardinality(failed) = 1
    /\ Cardinality(DOMAIN ret.value.localAssets) = 1
    /\ store[CacheKey(7)] # Null

\* C2: when the tour-detail fetch fails the call raises that error, no callback
\* was invoked, no download was made and the store is as it was
C2_FetchFailureChangesNothing ==
    [][(pc = "fetch" /\ pc' = "idle") =>
         /\ ret' = Raised("downloadTourAssets", tourId, "getTourDetails")
         /\ store' = store
         /\ progress' = <<>>
         /\ lastDownload' = NoCall
         /\ files' = files]_vars

\* the fetch failed for a tour that had an entry, and the entry is still there
C2_Witness ==
    /\ pc = "idle"
    /\ ret = Raised("downloadTourAssets", 7, "getTourDetails")
    /\ store[CacheKey(7)] # Null
    /\ progress = <<>>

\* C3 as stated: the only failure that makes downloadTourAssets raise is the
\* failure of the tour-detail fetch
C3_OnlyFetchFailureRaises ==
    (ret.op = "downloadTourAssets" /\ ret.kind = "raise") => ret.error = "getTourDetails"

\* C3: downloadTourAssets raises only for a failure of the initial cache-directory
\* initialisation, of the tour-detail fetch or of the final store write; once
\* downloads have failed, only the store write can still make it raise
C3_OnlyOuterFailuresRaise ==
    (ret.op = "downloadTourAssets" /\ ret.kind = "raise") =>
      /\ ret.error \in {"ensureCacheDirectoryExists", "getTourDetails", "setItem"}
      /\ ret.error = "ensureCacheDirectoryExists" => tourDetails = Undefined
      /\ failed # {} => ret.error = "setItem"

\* every download of a batch failed, the batch went on to the store write, and
\* that write failing made the call raise
C3_Witness ==
    /\ DownloadEnded
    /\ ret = Raised("downloadTourAssets", 7, "setItem")
    /\ Cardinality(failed) = 2
    /\ downloaded = 2

\* C4 as stated: a URL that an earlier call of downloadFile has stored, and whose
\* file is still there, is not fetched again and gets the same local path
C4_SecondDownloadSkipsFetch ==
    (pc = "loop" /\ lastDownload # NoCall) =>
      LET earlier == getCachedTourData(tourId) IN
        (/\ earlier # Null
         /\ lastDownload.url \in DOMAIN earlier.localAssets
         /\ dirExists
         /\ earlier.localAssets[lastDownload.url].file \in files)
        => /\ ~lastDownload.fetched
           /\ lastDownload.path = earlier.localAssets[lastDownload.url]

\* C5 as stated: once clearAllCache has completed without an error, no tour entry
\* is left in the store and the cache root directory exists
C5_ClearAllRecreatesDirectory ==
    ret = Returned("clearAllCache", 0, "done") =>
      /\ \A t \in TourIds : store[CacheKey(t)] = Null
      /\ dirExists

\* C6: isTourCached is true exactly for a tour whose entry was written less than
\* 24 hours ago
C6_FreshWithin24Hours ==
    \A t \in TourIds :
      isTourCached(t) <=> (persistedAt[t] >= 0 /\ now < persistedAt[t] + 24)

\* an entry written 23 hours ago is reported cached, a missing one is not
C6_Witness ==
    /\ persistedAt[7] = 0 /\ now = 23 /\ isTourCached(7)
    /\ persistedAt[8] = -1 /\ ~isTourCached(8)

\* C7: when clearTourCache(id) has completed without logging an error, the entry
\* of id is gone, isTourCached(id) is false and getCachedTourData(id) null, and
\* every other key has the value it had
C7_ClearTourRemovesEntry ==
    [][\A t \in TourIds :
         ret' = Returned("clearTourCache", t, "done") =>
           /\ store'[CacheKey(t)] = Null
           /\ ~isTourCached(t)'
           /\ getCachedTourData(t)' = Null
           /\ \A k \in Keys \ {CacheKey(t)} : store'[k] = store[k]]_vars

\* the entry of tour 7 was cleared while tour 8 keeps its entry
C7_Witness ==
    /\ ret = Returned("clearTourCache", 7, "done")
    /\ store[CacheKey(7)] = Null
    /\ store[CacheKey(8)] # Null
    /\ isTourCached(8)

\* C8: in the state in which downloadTourAssets(id) returns, isTourCached(id) is
\* true and getCachedTourData(id) is the value returned
C8_ReturnedEntryIsCached ==
    [][(pc = "loop" /\ pc' = "idle" /\ ret'.kind = "return") =>
         /\ ret'.op = "downloadTourAssets" /\ ret'.id = tourId
         /\ isTourCached(tourId)'
         /\ getCachedTourData(tourId)' = ret'.value]_vars

\* a download of tour 7 returned a mapping with both URLs late in the run
C8_Witness ==
    /\ DownloadEnded /\ ret.kind = "return" /\ ret.id = 7
    /\ DOMAIN ret.value.localAssets = {U1, U2}
    /\ now = 24
    /\ isTourCached(7)
    /\ getCachedTourData(7) = ret.value

----------------------------------------------------------------------------
(* Properties of progress reporting *)

Percentages(calls) == [i \in 1..Len(calls) |-> calls[i].percentage]

\* a batch on tour 7 of the batch specification returned with no failed download
AllThreeSucceeded ==
    /\ DownloadEnded /\ ret.kind = "return" /\ ret.id = 7
    /\ Len(urlsToDownload) = 3
    /\ failed = {}

\* C11 as stated: for a tour with 3 URLs that all download, the progress callback
\* is invoked with the percentages 0, 33, 67, 100, and the entry has 3 mappings
C11_FourPercentages ==
    AllThreeSucceeded =>
      /\ Percentages(progress) = <<0, 33, 67, 100>>
      /\ Cardinality(DOMAIN ret.value.localAssets) = 3

\* C11: for a tour with 3 URLs that all download, the progress callback is invoked
\* seven times, with the percentages 0, 0, 33, 33, 67, 67, 100 in this order: once
\* at the start, then before and after each download; and the entry returned has
\* 3 mappings
C11_SevenCallbacks ==
    AllThreeSucceeded =>
      /\ Percentages(progress) = <<0, 0, 33, 33, 67, 67, 100>>
      /\ Cardinality(DOMAIN ret.value.localAssets) = 3
      /\ DOMAIN ret.value.localAssets = {U1, U2, U3}

\* the three downloads of tour 7 succeeded and the batch returned
C11_Witness ==
    /\ AllThreeSucceeded
    /\ Len(progress) = 7
    /\ progress[7].currentFile = Marker("Complete!")
    /\ DOMAIN ret.value.localAssets = {U1, U2, U3}

\* C12: in the callbacks of one batch, downloaded never decreases and never
\* exceeds total, percentage is an integer of 0..100 that is the nearest integer
\* to downloaded/total*100 (0 when the batch has no URL) and never decreases from
\* one callback to the next, whether downloads succeed or fail
C12_ProgressMonotone ==
    \A i \in 1..Len(progress) :
      LET call == progress[i]
          excess == 2 * (call.percentage * call.total - 100 * call.downloaded)
      IN  /\ call.total = Len(urlsToDownload)
          /\ call.downloaded \in 0..call.total
          /\ call.percentage \in 0..100
          /\ call.total > 0 => (-call.total < excess /\ excess <= call.total)
          /\ call.total = 0 => call.percentage = 0
          /\ i > 1 => /\ progress[i - 1].downloaded <= call.downloaded
                      /\ progress[i - 1].percentage <= call.percentage

\* a batch of three URLs ran to its last callback although two downloads failed
C12_Witness ==
    /\ pc = "loop"
    /\ Len(urlsToDownload) = 3
    /\ Cardinality(failed) = 2
    /\ Len(progress) = 7
    /\ progress[5].percentage = 67
    /\ progress[7].downloaded = 3

----------------------------------------------------------------------------
(* Read specification: the application starts with what earlier runs left   *)
(* in the store, and calls the read operations and the eviction operations. *)

\* a stored string that JSON.parse rejects
Malformed == [type |-> "text"]

\* entries an earlier run wrote at hour 0 for tour t, one for each set of URLs
\* whose download succeeded
StoredEntries(t) ==
    LET urls == Range(collectAllAssetUrls(ServerTours[t])) IN
      {JSONstringify([tourDetails |-> ServerTours[t],
                      downloadedAt |-> toISOString(0),
                      localAssets |-> [u \in S |->
                         LocalPath(getFileNameFromUrl(u, 0,
                                     IF u = U1 THEN "r1" ELSE "r2"))]]) :
         S \in SUBSET urls}

StoredValues(t) == {Null, Malformed} \cup StoredEntries(t)

\* the file names an entry's mapping refers to
FilesOf(text) ==
    IF text = Null \/ JSONparse(text).threw THEN {}
    ELSE {e[2].file : e \in text.localAssets}

InitReads ==
    /\ now = 0
    /\ \E e7 \in StoredValues(7), e8 \in StoredValues(8) :
         /\ store = [k \in Keys |-> IF k = CacheKey(7) THEN e7
                                    ELSE IF k = CacheKey(8) THEN e8
                                    ELSE Str(<< <<"s">> >>)]
         /\ files = FilesOf(e7) \cup FilesOf(e8)
         /\ persistedAt = [t \in TourIds |->
                             IF (IF t = 7 THEN e7 ELSE e8) = Null THEN -1 ELSE 0]
    /\ dirExists = TRUE
    /\ subdirs = {}
    /\ _cacheInitialized = FALSE
    /\ pc = "idle"
    /\ tourId = 0
    /\ tourDetails = Undefined
    /\ urlsToDownload = <<>>
    /\ downloaded = 0
    /\ localAssets = << >>
    /\ progress = <<>>
    /\ lastDownload = NoCall
    /\ ret = NoCall
    /\ batches = 0
    /\ failed = {}
    /\ attempts = <<>>
    /\ server = ServerTours
    /\ suspended = IdleCall
    /\ ui = HomeUi
    /\ hist = NoHistory

\* faulty variant: the catch of a read rethrows
Caught_Rethrown(op, id, value) == Raised(op, id, "rethrown")

\* catch (error) { console.error(...); return value } of isTourCached and
\* getCachedTourData
Caught(op, id, value) ==
    [op |-> op, id |-> id, kind |-> "return", value |-> value, logged |-> TRUE]

\* faulty variant: a read evicts the entry it looked at
StoreAfterRead_Evict(st, key) == removeItem(st, key)

\* what isTourCached and getCachedTourData do to the store: nothing
StoreAfterRead(st, key) == st

\* a read of tour t throws inside its try: getItem rejects or JSON.parse throws
ReadThrows(t, readFails) ==
    readFails \/ (getItem(CacheKey(t)) # Null /\ JSONparse(getItem(CacheKey(t))).threw)

readFrame == <<now, dirExists, subdirs, files, _cacheInitialized, pc, lastDownload,
               batches, persistedAt, server,
                   suspended, ui, hist>>

\* await tourAssetDownloader.isTourCached(t)
CallIsTourCached(t) ==
    /\ pc = "idle"
    /\ \E readFails \in BOOLEAN :
         ret' = IF ReadThrows(t, readFails) THEN Caught("isTourCached", t, FALSE)
                ELSE Returned("isTourCached", t, isTourCached(t))
    /\ store' = StoreAfterRead(store, CacheKey(t))
    /\ UNCHANGED readFrame
    /\ UNCHANGED batchVars

\* await tourAssetDownloader.getCachedTourData(t)
CallGetCachedTourData(t) ==
    /\ pc = "idle"
    /\ \E readFails \in BOOLEAN :
         ret' = IF ReadThrows(t, readFails) THEN Caught("getCachedTourData", t, Null)
                ELSE Returned("getCachedTourData", t, getCachedTourData(t))
    /\ store' = StoreAfterRead(store, CacheKey(t))
    /\ UNCHANGED readFrame
    /\ UNCHANGED batchVars

\* faulty variant: every URL is reported as not cached
getLocalPath_Never(remoteUrl, cachedData) == Null

\* getLocalPath(remoteUrl, cachedData): cachedData.localAssets[remoteUrl] || null
getLocalPath(remoteUrl, cachedData) ==
    LET found == IF remoteUrl \in DOMAIN cachedData.localAssets
                 THEN cachedData.localAssets[remoteUrl]
                 ELSE Undefined
    IN  IF found # Undefined THEN found ELSE Null

\* tourAssetDownloader.getLocalPath(remoteUrl, cachedData), with the entry of tour
\* t that getCachedTourData gave the screen as cachedData; the record keeps the
\* argument as it is after the call
CallGetLocalPath(t, remoteUrl) ==
    /\ pc = "idle"
    /\ getCachedTourData(t) # Null
    /\ LET cachedData == getCachedTourData(t) IN
         ret' = [op |-> "getLocalPath", id |-> t, url |-> remoteUrl, kind |-> "return",
                 value |-> getLocalPath(remoteUrl, cachedData),
                 cachedData |-> cachedData]
    /\ UNCHANGED store
    /\ UNCHANGED readFrame
    /\ UNCHANGED batchVars

\* ApiService.logout(): multiRemove of the three session keys; it has no catch,
\* so a rejection of multiRemove reaches the caller
logout ==
    /\ pc = "idle"
    /\ \E storeFails \in BOOLEAN :
         IF storeFails
         THEN /\ ret' = Raised("logout", 0, "multiRemove")
              /\ UNCHANGED store
         ELSE /\ ret' = Returned("logout", 0, "done")
              /\ store' = [k \in DOMAIN store |-> IF k \in AuthKeys THEN Null ELSE store[k]]
    /\ UNCHANGED readFrame
    /\ UNCHANGED batchVars

NextReads ==
    \/ \E t \in TourIds : CallIsTourCached(t)
    \/ \E t \in TourIds : CallGetCachedTourData(t)
    \/ \E t \in TourIds, remoteUrl \in Urls : CallGetLocalPath(t, remoteUrl)
    \/ \E t \in TourIds : clearTourCache(t)
    \/ clearAllCache
    \/ logout
    \/ Tick

SpecReads == InitReads /\ [][NextReads]_vars

----------------------------------------------------------------------------
(* Properties of the read operations *)

\* C13: getLocalPath(url, cachedData) returns the path mapped to url when url is
\* a key of cachedData.localAssets and null otherwise, and leaves cachedData, the
\* store and the file system as they were
C13_LocalPathLookup ==
    [][(ret'.op = "getLocalPath" /\ ret' # ret) =>
         LET cachedData == getCachedTourData(ret'.id) IN
           /\ ret'.value = IF ret'.url \in DOMAIN cachedData.localAssets
                           THEN cachedData.localAssets[ret'.url]
                           ELSE Null
           /\ ret'.cachedData = cachedData
           /\ store' = store
           /\ files' = files /\ dirExists' = dirExists /\ subdirs' = subdirs]_vars

\* a key of the mapping was resolved to its local path
C13_Witness ==
    /\ ret.op = "getLocalPath" /\ ret.id = 7 /\ ret.url = U2
    /\ U2 \in DOMAIN ret.cachedData.localAssets
    /\ ret.value = LocalPath(getFileNameFromUrl(U2, 0, "r2"))
    /\ U1 \notin DOMAIN ret.cachedData.localAssets

\* C14: in every entry the store holds, every key of localAssets is one of the
\* URLs collectAllAssetUrls yields for the tourDetails record of that same entry
C14_KeysAreCollectedUrls ==
    \A t \in TourIds :
      LET entry == getCachedTourData(t) IN
        entry # Null =>
          DOMAIN entry.localAssets \subseteq Range(collectAllAssetUrls(entry.tourDetails))

\* the stored entry of tour 7 maps one of the two collected URLs
C14_Witness ==
    /\ getCachedTourData(7) # Null
    /\ DOMAIN getCachedTourData(7).localAssets = {U2}
    /\ Range(collectAllAssetUrls(getCachedTourData(7).tourDetails)) = {U1, U2}

\* C15: a call of isTourCached changes neither the store nor the file system, and
\* an entry of the store, expired or not, changes only in a step of
\* clearTourCache, of clearAllCache or of a download
C15_ReadsKeepEntries ==
    [][/\ (ret'.op = "isTourCached" /\ ret' # ret) =>
            /\ store' = store
            /\ files' = files /\ dirExists' = dirExists /\ subdirs' = subdirs
       /\ \A t \in TourIds :
            store'[CacheKey(t)] # store[CacheKey(t)] =>
              ret'.op \in {"clearTourCache", "clearAllCache", "downloadTourAssets"}]_vars

\* isTourCached answered false for an expired entry, which is still in the store
C15_Witness ==
    /\ now >= CACHE_EXPIRY_HOURS
    /\ ret = Returned("isTourCached", 7, FALSE)
    /\ persistedAt[7] = 0
    /\ getCachedTourData(7) # Null
    /\ DateParse(getCachedTourData(7).downloadedAt) = 0

\* the store holds an entry of tour t that was downloaded 24 hours ago or earlier
Expired(t) ==
    LET entry == getCachedTourData(t) IN
      /\ entry # Null
      /\ DateNow >= DateParse(entry.downloadedAt) + CACHE_EXPIRY_HOURS * MS_PER_HOUR

\* C16 as stated: a read of a tour whose entry has expired treats the entry as
\* invalid: isTourCached answers false and getCachedTourData, which the tour
\* screen loads from, does not hand the entry out
C16_ExpiredNeverServed ==
    [][\A t \in TourIds :
         (ret' # ret /\ ret'.id = t /\ Expired(t)) =>
           /\ ret'.op = "isTourCached" => ret'.value = FALSE
           /\ ret'.op = "getCachedTourData" => ret'.value = Null]_vars

\* C17: a read of a tour whose stored value is not JSON, or whose store read
\* failed, raises nothing and reports a miss: isTourCached returns false and
\* getCachedTourData returns null
C17_ReadFailureIsMiss ==
    ret.op \in {"isTourCached", "getCachedTourData"} =>
      /\ ret.kind = "return"
      /\ (store[CacheKey(ret.id)] = Malformed \/ "logged" \in DOMAIN ret) =>
           IF ret.op = "isTourCached" THEN ret.value = FALSE ELSE ret.value = Null

\* isTourCached found a value that is not JSON, logged the error and returned
\* false
C17_Witness ==
    /\ store[CacheKey(7)] = Malformed
    /\ ret = Caught("isTourCached", 7, FALSE)

----------------------------------------------------------------------------
(* Properties of eviction *)

\* C18: clearTourCache and clearAllCache never raise; when a store or file-system
\* call inside them fails the error is logged and the call completes
C18_ClearNeverRaises ==
    ret.op \in {"clearTourCache", "clearAllCache"} =>
      /\ ret.kind = "return"
      /\ ret.value \in {"done", "error logged"}

\* clearAllCache hit a failure before removing anything, logged it and completed
C18_Witness ==
    /\ ret = Logged("clearAllCache", 0)
    /\ getCachedTourData(7) # Null
    /\ store[CacheKey(8)] = Malformed

\* C19 as stated: once clearTourCache(t) has completed, none of the files that
\* the entry of t recorded as local paths is left in the cache directory
C19_ClearTourDeletesFiles ==
    [][\A t \in TourIds :
         (ret' = Returned("clearTourCache", t, "done") /\ getCachedTourData(t) # Null) =>
           \A u \in DOMAIN getCachedTourData(t).localAssets :
             getCachedTourData(t).localAssets[u].file \notin files']_vars

----------------------------------------------------------------------------
(* Properties of the download loop *)

\* C20: within a batch downloadFile is called for the collected URLs one after
\* the other, in the collector's order and once each: while the loop runs the
\* attempts made are the first `downloaded` URLs, each finished before the next
\* one starts, and a batch that has ended after its fetch has made exactly one
\* attempt per collected URL
C20_SequentialOncePerUrl ==
    /\ pc = "loop" =>
         /\ attempts = SubSeq(urlsToDownload, 1, downloaded)
         /\ downloaded > 0 =>
              /\ lastDownload # NoCall
              /\ lastDownload.url = urlsToDownload[downloaded]
    /\ DownloadEnded =>
         /\ attempts = urlsToDownload
         /\ Len(attempts) = Len(urlsToDownload)
         /\ tourDetails # Undefined => downloaded = Len(urlsToDownload)

\* the batch on the tour with three URLs ended after three attempts in the
\* collector's order, the second of which failed
C20_Witness ==
    /\ DownloadEnded /\ ret.id = 7
    /\ urlsToDownload = <<U1, U2, U3>>
    /\ attempts = <<U1, U2, U3>>
    /\ failed = {U2}

\* C21: for the i-th URL of a batch of N the callbacks are a call before the
\* attempt with downloaded = i-1 and the display name of the file, then the
\* attempt, then a call with downloaded = i and the marker 'Next file...' for
\* i < N and 'Complete!' for i = N, issued for a failed attempt as for a
\* successful one; the last call of the batch has downloaded = total and
\* percentage 100
C21_BeforeAndAfterCallbacks ==
    (tourDetails # Undefined /\ (pc = "loop" \/ DownloadEnded)) =>
      LET N == Len(urlsToDownload) IN
        /\ Len(progress) = 1 + 2 * downloaded
        /\ Len(attempts) = downloaded
        /\ \A i \in 1..downloaded :
             LET before == progress[2 * i]
                 after == progress[2 * i + 1]
             IN  /\ before.downloaded = i - 1
                 /\ before.currentFile = DisplayName(urlsToDownload[i])
                 /\ attempts[i] = urlsToDownload[i]
                 /\ after.downloaded = i
                 /\ after.currentFile = IF i < N THEN Marker("Next file...")
                                        ELSE Marker("Complete!")
        /\ (DownloadEnded /\ N > 0) =>
             /\ progress[Len(progress)].downloaded = progress[Len(progress)].total
             /\ progress[Len(progress)].percentage = 100

\* the last attempt of a batch of three failed and was followed by the call
\* announcing completion
C21_Witness ==
    /\ DownloadEnded /\ ret.id = 7
    /\ Len(urlsToDownload) = 3
    /\ U3 \in failed
    /\ progress[6].currentFile = DisplayName(U3)
    /\ progress[7] = Progress(3, 3, Marker("Complete!"), 100)

----------------------------------------------------------------------------
(* Properties of the store write of a batch *)

\* C22: the store has one entry per tour id; when downloadTourAssets(id) returns,
\* whether or not an entry of id was there, the value under cached_tour_<id> is
\* exactly the entry this call returned, stamped with the time of this write,
\* and every other key has the value it had
C22_RedownloadOverwrites ==
    [][(pc = "loop" /\ pc' = "idle" /\ ret'.kind = "return") =>
         /\ store'[CacheKey(tourId)] = JSONstringify(ret'.value)
         /\ getCachedTourData(tourId)'.localAssets = localAssets
         /\ DateParse(getCachedTourData(tourId)'.downloadedAt) = DateNow
         /\ \A k \in Keys \ {CacheKey(tourId)} : store'[k] = store[k]]_vars

\* a second download of tour 7, a day after the first, replaced the entry
C22_Witness ==
    /\ DownloadEnded /\ ret.kind = "return" /\ ret.id = 7
    /\ hist.overwrote
    /\ batches = 2
    /\ now = 25
    /\ getCachedTourData(7) = ret.value
    /\ DateParse(ret.value.downloadedAt) = 25 * MS_PER_HOUR

----------------------------------------------------------------------------
(* Properties relating the store, the flag and the disk *)

\* C23 as stated: whenever _cacheInitialized is true the cache root directory
\* exists on disk
C23_InitializedImpliesDirectory == _cacheInitialized => dirExists

\* C24 as stated: every local path in the mapping of an entry the store holds
\* names a file that is on disk
C24_StoredPathsExist ==
    \A t \in TourIds :
      LET entry == getCachedTourData(t) IN
        entry # Null =>
          \A u \in DOMAIN entry.localAssets :
            dirExists /\ entry.localAssets[u].file \in files

\* C25: the steps of a batch leave the store as it is until the batch ends; the
\* step that ends it comes after the last attempt and the last callback, and
\* when it writes, it writes the complete entry the call returns
C25_SingleFinalWrite ==
    [][/\ (pc = "idle" /\ pc' = "fetch") => store' = store
       /\ (pc = "fetch" /\ pc' # "fetch") => store' = store
       /\ (pc = "loop" /\ pc' = "loop" /\ downloaded' # downloaded) => store' = store
       /\ (pc = "loop" /\ pc' = "idle") =>
            /\ attempts = urlsToDownload
            /\ Len(progress) = 1 + 2 * Len(urlsToDownload)
            /\ progress' = progress
            /\ store' # store =>
                 /\ ret'.kind = "return"
                 /\ store' = [store EXCEPT ![CacheKey(tourId)] = JSONstringify(ret'.value)]
                 /\ DOMAIN ret'.value.localAssets = Range(urlsToDownload) \ failed]_vars

\* a second batch of tour 7 is half way, and the store still holds the whole
\* entry of the first
C25_Witness ==
    /\ pc = "loop" /\ tourId = 7 /\ downloaded = 1
    /\ DOMAIN localAssets = {U1}
    /\ now = 24
    /\ persistedAt[7] = 0
    /\ getCachedTourData(7) # Null
    /\ DOMAIN getCachedTourData(7).localAssets = {U1, U2}

----------------------------------------------------------------------------
(* Overlap specification: two downloadTourAssets calls are in progress at   *)
(* once. The variables pc .. ret hold the locals of the call that runs,     *)
(* `suspended` those of the call that waits at an await; the event loop     *)
(* resumes the waiting call at any await of the running one.                *)

\* the locals of the running call
RunningCall ==
    [pc |-> pc, tourId |-> tourId, tourDetails |-> tourDetails,
     urlsToDownload |-> urlsToDownload, downloaded |-> downloaded,
     localAssets |-> localAssets, progress |-> progress, failed |-> failed,
     attempts |-> attempts, lastDownload |-> lastDownload, ret |-> ret]

\* faulty variant: the mapping is one object shared by the calls
ResumedMapping_Shared(saved, running) == running @@ saved

\* const localAssets = {} is a local of each call: the resumed call finds the
\* mapping it left
ResumedMapping(saved, running) == saved

\* the running call reaches an await and the other call is resumed
Switch ==
    /\ suspended' = RunningCall
    /\ pc' = suspended.pc
    /\ tourId' = suspended.tourId
    /\ tourDetails' = suspended.tourDetails
    /\ urlsToDownload' = suspended.urlsToDownload
    /\ downloaded' = suspended.downloaded
    /\ localAssets' = ResumedMapping(suspended.localAssets, localAssets)
    /\ progress' = suspended.progress
    /\ failed' = suspended.failed
    /\ attempts' = suspended.attempts
    /\ lastDownload' = suspended.lastDownload
    /\ ret' = suspended.ret
    /\ UNCHANGED <<now, store, _cacheInitialized, batches, persistedAt, server, ui, hist>>
    /\ UNCHANGED fsVars

NextOverlap ==
    \/ \E t \in TourIds : StartDownload(t)
    \/ FetchTour
    \/ DownloadNext
    \/ Persist
    \/ Switch

SpecOverlap == Init /\ [][NextOverlap]_vars

\* C26: while two batches overlap, the entry of a tour changes only in the
\* step in which one batch writes, and then it becomes the complete result of
\* that batch alone: the mapping holds exactly the URLs that batch downloaded
\* and is the one the call returns; so the entry is always the previous one or
\* the whole result of the batch that wrote last
C26_LastWriterWins ==
    [][\A t \in TourIds :
         store'[CacheKey(t)] # store[CacheKey(t)] =>
           /\ pc = "loop" /\ pc' = "idle" /\ tourId = t
           /\ ret' = Returned("downloadTourAssets", t, ret'.value)
           /\ getCachedTourData(t)' = ret'.value
           /\ DOMAIN ret'.value.localAssets = Range(attempts) \ failed
           /\ \A u \in DOMAIN ret'.value.localAssets :
                u = lastDownload.url => ret'.value.localAssets[u] = lastDownload.path]_vars

\* one batch of tour 7 has written its entry while another batch of tour 7,
\* with a mapping of its own, is inside its loop
C26_Witness ==
    /\ DownloadEnded /\ ret.kind = "return" /\ ret.id = 7
    /\ suspended.pc = "loop" /\ suspended.tourId = 7
    /\ suspended.downloaded = 1
    /\ DOMAIN suspended.localAssets = {U1}
    /\ DOMAIN ret.value.localAssets = {U1, U2}
    /\ suspended.localAssets[U1] # ret.value.localAssets[U1]
    /\ getCachedTourData(7) = ret.value

----------------------------------------------------------------------------
(* Properties of a clear during a batch *)

\* C27: when clearTourCache(t) has completed while a batch of t was in flight,
\* the store write of the batch still lands: in the state in which the batch
\* returns the entry of t is back and isTourCached(t) is true
C27_WriteLandsAfterClear ==
    [][(hist.clearedInFlight /\ pc = "loop" /\ pc' = "idle" /\ ret'.kind = "return") =>
         /\ store'[CacheKey(tourId)] # Null
         /\ persistedAt'[tourId] = now
         /\ isTourCached(tourId)']_vars

\* tour 7 was cleared during its batch and is cached once the batch has returned
C27_Witness ==
    /\ DownloadEnded /\ ret.kind = "return" /\ ret.id = 7
    /\ hist.clearedInFlight
    /\ ~hist.overwrote
    /\ batches = 2
    /\ isTourCached(7)

----------------------------------------------------------------------------
(* Home-screen specification: startTour, the download modal and its cancel  *)
(* button around one downloadTourAssets call at a time.                     *)

homeFrame == <<now, store, _cacheInitialized, pc, lastDownload, ret, batches,
               persistedAt, server, suspended, hist>>

\* startTour(tour) up to its call of downloadTourAssets: a cached tour is opened
\* at once, otherwise the modal is shown and the batch numbered batches + 1 is
\* awaited
PressStartTour(t) ==
    /\ pc = "idle"
    /\ ui.awaiting = 0
    /\ ui.route = <<"Home">>
    /\ ui' = IF isTourCached(t)
             THEN [ui EXCEPT !.route = <<"Tour", t>>, !.alert = FALSE]
             ELSE [ui EXCEPT !.modalVisible = TRUE, !.modalTour = t,
                             !.awaiting = batches + 1, !.cancelled = FALSE,
                             !.alert = FALSE]
    /\ UNCHANGED homeFrame
    /\ UNCHANGED batchVars
    /\ UNCHANGED fsVars

\* await tourAssetDownloader.downloadTourAssets(tour.id, ...) inside startTour
HomeStartDownload(t) ==
    /\ ui.awaiting = batches + 1
    /\ ui.modalTour = t
    /\ StartDownload(t)

\* cancelDownload: setDownloadModal(prev => ({ ...prev, visible: false }))
cancelDownload ==
    /\ ui.modalVisible
    /\ ui' = [ui EXCEPT !.modalVisible = FALSE, !.cancelled = TRUE]
    /\ UNCHANGED homeFrame
    /\ UNCHANGED batchVars
    /\ UNCHANGED fsVars

\* faulty variant: a cancelled download does not open the tour
ShouldNavigate_UnlessCancelled(cancelled) == ~cancelled

\* after the await, startTour marks the tour cached and navigates; it looks at
\* no cancellation state
ShouldNavigate(cancelled) == TRUE

\* startTour after its await: the call has returned or raised
StartTourSettled ==
    /\ ui.awaiting > 0
    /\ ui.awaiting = batches
    /\ pc = "idle"
    /\ ret.op = "downloadTourAssets"
    /\ ui' = IF ret.kind = "return"
             THEN IF ShouldNavigate(ui.cancelled)
                  THEN [ui EXCEPT !.cachedTours = @ \cup {ret.id}, !.modalVisible = FALSE,
                                  !.route = <<"Tour", ret.id>>, !.awaiting = 0]
                  ELSE [ui EXCEPT !.awaiting = 0]
             ELSE [ui EXCEPT !.modalVisible = FALSE, !.alert = TRUE, !.awaiting = 0]
    /\ UNCHANGED homeFrame
    /\ UNCHANGED batchVars
    /\ UNCHANGED fsVars

\* the user leaves the Tour screen
GoBack ==
    /\ ui.route # <<"Home">>
    /\ ui' = [ui EXCEPT !.route = <<"Home">>]
    /\ UNCHANGED homeFrame
    /\ UNCHANGED batchVars
    /\ UNCHANGED fsVars

NextHome ==
    \/ \E t \in TourIds : PressStartTour(t)
    \/ \E t \in TourIds : HomeStartDownload(t)
    \/ FetchTour
    \/ DownloadNext
    \/ Persist
    \/ cancelDownload
    \/ StartTourSettled
    \/ GoBack

SpecHome == Init /\ [][NextHome]_vars

\* C28: pressing cancel changes nothing but the visibility of the modal; the
\* batch goes on, and when it returns after a cancel it has attempted every URL
\* and persisted its entry, and the screen marks the tour cached and opens the
\* Tour screen
C28_CancelOnlyHidesModal ==
    [][/\ (ui'.cancelled /\ ~ui.cancelled) =>
            /\ ui' = [ui EXCEPT !.modalVisible = FALSE, !.cancelled = TRUE]
            /\ pc' = pc /\ downloaded' = downloaded /\ localAssets' = localAssets
            /\ urlsToDownload' = urlsToDownload
            /\ store' = store /\ files' = files
       /\ (ui.cancelled /\ ui.awaiting > 0 /\ ui'.awaiting = 0 /\ ret.kind = "return") =>
            /\ attempts = urlsToDownload
            /\ getCachedTourData(ret.id) = ret.value
            /\ ret.id \in ui'.cachedTours
            /\ ui'.route = <<"Tour", ret.id>>
            /\ ~ui'.modalVisible]_vars

\* cancel was pressed during the batch of tour 7; the batch downloaded both
\* files and persisted, and the Tour screen is open
C28_Witness ==
    /\ ui.cancelled /\ ui.awaiting = 0
    /\ ui.route = <<"Tour", 7>>
    /\ 7 \in ui.cachedTours
    /\ ret.kind = "return" /\ ret.id = 7
    /\ DOMAIN ret.value.localAssets = {U1, U2}
    /\ getCachedTourData(7) = ret.value

----------------------------------------------------------------------------
(* Properties of the key space *)

\* C29: a step of clearTourCache or clearAllCache changes no session key
\* (access_token, refresh_token, user), and a step of logout changes no
\* cached_tour_ entry
C29_DisjointKeys ==
    [][/\ \A k \in AuthKeys :
            store'[k] # store[k] => ret'.op = "logout"
       /\ \A t \in TourIds :
            store'[CacheKey(t)] # store[CacheKey(t)] =>
              ret'.op \in {"clearTourCache", "clearAllCache"}
       /\ (ret'.op = "logout" /\ ret' # ret) =>
            /\ \A t \in TourIds : store'[CacheKey(t)] = store[CacheKey(t)]
            /\ files' = files /\ dirExists' = dirExists
       /\ (ret'.op \in {"clearTourCache", "clearAllCache"} /\ ret' # ret) =>
            \A k \in AuthKeys : store'[k] = store[k]]_vars

\* logout removed the session keys and both tour values are still in the store
C29_Witness ==
    /\ ret = Returned("logout", 0, "done")
    /\ \A k \in AuthKeys : store[k] = Null
    /\ getCachedTourData(7) # Null
    /\ DOMAIN getCachedTourData(7).localAssets = {U1, U2}
    /\ getCachedTourData(8) # Null

----------------------------------------------------------------------------
(* Properties of a batch without assets *)

\* C30: when downloadTourAssets returns for a tour whose record yields no asset
\* URL, the progress callback was invoked exactly once, with total 0,
\* downloaded 0, percentage 0 and the starting marker (so never with 'Complete!'
\* and never with a non-integer percentage), no download was attempted, the
\* stored entry is the returned one with an empty localAssets mapping, and
\* isTourCached is true
C30_EmptyTourCached ==
    (DownloadEnded /\ ret.kind = "return" /\ Len(urlsToDownload) = 0) =>
      /\ Len(progress) = 1
      /\ progress[1].total = 0
      /\ progress[1].downloaded = 0
      /\ progress[1].percentage = 0
      /\ progress[1].currentFile = Marker("Starting download...")
      /\ \A i \in 1..Len(progress) :
           /\ progress[i].currentFile # Marker("Complete!")
           /\ progress[i].percentage \in 0..100
      /\ attempts = <<>>
      /\ DOMAIN ret.value.localAssets = {}
      /\ store[CacheKey(ret.id)] = JSONstringify(ret.value)
      /\ getCachedTourData(ret.id).localAssets = ret.value.localAssets
      /\ isTourCached(ret.id)

\* the batch of the tour without assets returned and its entry is in the store
C30_Witness ==
    /\ DownloadEnded /\ ret.kind = "return" /\ ret.id = 8
    /\ urlsToDownload = <<>>
    /\ Len(progress) = 1
    /\ store[CacheKey(8)] # Null
    /\ isTourCached(8)

====
